---- MODULE Spec2Model ----
(***************************************************************************)
(* A model of the workout-split server: the schema provisioner that runs   *)
(* at process start (api/database/dbConnection.js), the database           *)
(* controller (api/database/dbController.js), the credential and token     *)
(* helpers (api/auth/auth.js) and the HTTP handlers (api/index.js).        *)
(*                                                                         *)
(* The PostgreSQL store is modelled by the set of relations that exist and *)
(* the rows of each, with the constraints the CREATE TABLE statements of   *)
(* dbConnection.js declare (primary keys, NOT NULL, the two foreign keys   *)
(* with ON DELETE CASCADE) and no others.  Every query is one atomic step; *)
(* a handler that issues several queries is several steps, so concurrent   *)
(* requests interleave between their queries as they do on the event loop. *)
(* uuidv4() is a fresh identifier (a counter).  bcrypt and jsonwebtoken    *)
(* are modelled by what they compute: a salted one-way hash that keeps no  *)
(* plaintext outside the hash, and a claim set signed with a key, an       *)
(* algorithm and an expiry.                                                *)
(***************************************************************************)
EXTENDS Integers, Sequences, FiniteSets, TLC

(***************************************************************************)
(* Bounds of the model.  The environment performs at most MaxEvents events *)
(* in a behaviour: a request received, a failure of a query or of a        *)
(* primitive, a restart of the process.                                    *)
(***************************************************************************)
MaxEvents == 2
\* Process starts in a behaviour of the provisioner taken alone (ProvSpec).
MaxRuns == 2

(***************************************************************************)
(* Configuration and program constants.                                    *)
(***************************************************************************)
\* JWT_EXPIRES_IN: the token lifetime (README .env: 5h), in clock ticks of 5h.
JWT_EXPIRES_IN == 1
\* createDemoUser: five workouts, five exercises in each.
NumDemoWorkouts == 5
NumDemoExercisesPerWorkout == 5

JWT_SECRET == "thisIsASecret"
JWT_ALGORITHMS == "HS256"
DemoEmail == "demo@user.com"
\* The plaintext behind the pre-hashed demo password is not in the source.
DemoPassword == "demo-plaintext"
DemoSalt == "tDSoPYunn4olGO0VaNFVqO"

Emails == {"a@x.io", DemoEmail}
Passwords == {"pw1", "pw2"}
Salts == {"salt1", "salt2"}
WorkoutNames == {"My Day"}
ExerciseNames == {"My Exercise"}
SetsInputs == {"4 Sets"}

\* Mutant: checkTables processes the relations in the opposite order.
TableOrder_reversed == <<"exercises", "workouts", "users">>

TableOrder == <<"users", "workouts", "exercises">>
AllTables == {"users", "workouts", "exercises"}

DemoWorkoutNames ==
  <<"Push Day", "Pull Day", "Leg Day", "Upper Body Day", "Lower Body Day">>
DemoExerciseNames ==
  << <<"Bench Press", "Shoulder Press", "Tricep Dips", "Chest Flyes", "Tricep Pushdowns">>,
     <<"Pull-Ups", "Barbell Rows", "Bicep Curls", "Face Pulls", "Lat Pulldowns">>,
     <<"Squats", "Leg Press", "Leg Curls", "Leg Extensions", "Calf Raises">>,
     <<"Incline Bench Press", "Bent Over Rows", "Lateral Raises", "Tricep Extensions", "Bicep Curls">>,
     <<"Deadlifts", "Lunges", "Hamstring Curls", "Glute Bridges", "Calf Raises">> >>

None == "none"
NoSuchId == 0
NoToken == [userId |-> NoSuchId, email |-> None, exp |-> 0, key |-> None, alg |-> None]

VARIABLES
  tables,      \* the relations that exist in the store
  users,       \* rows of users:     [recid, email, password]
  workouts,    \* rows of workouts:  [recid, userrecid, workoutname]
  exercises,   \* rows of exercises: [recid, userrecid, workoutrecid, exercisename, sets]
  nextId,      \* the next value uuidv4() returns
  now,         \* the clock
  provPc,      \* the provisioner's position in checkTables
  provTable,   \* index in TableOrder of the relation being processed
  seedIds,     \* createDemoUser's locals: [user, workouts] once generated
  provLog,     \* statements the provisioner issued in this run, in order
  run,         \* number of process starts so far
  listening,   \* app.listen's server accepts requests
  registering, \* POST /register requests between verifyUser and createUser
  loggingIn,   \* POST /login requests between verifyUser and getUser, by arrival number
  fetching,    \* GET /workouts requests between getWorkouts and getExercises
  tokens,      \* tokens issued so far (held by clients)
  last,        \* the most recent response sent
  nreq,        \* requests received so far
  faults       \* store / primitive failures so far

store == <<tables, users, workouts, exercises>>
pending == <<registering, loggingIn, fetching>>
vars == <<tables, users, workouts, exercises, nextId, now, provPc, provTable,
          seedIds, provLog, run, listening, registering, loggingIn, fetching,
          tokens, last, nreq, faults>>

\* Environment events used so far.
Used == nreq + faults + (run - 1)
CanEvent == Used < MaxEvents
\* A query or primitive may fail where the environment still may act.
FailChoices == IF CanEvent THEN {FALSE, TRUE} ELSE {FALSE}
Bump(fail) == IF fail THEN faults + 1 ELSE faults

(***************************************************************************)
(* auth.js                                                                 *)
(***************************************************************************)
\* Mutant: the password is stored as given, under no hashing scheme.
hashPassword_storesPlain(password, salt) ==
  [scheme |-> "plain", cost |-> 0, salt |-> salt, digest |-> <<salt, password>>]

\* bcrypt.hash(password, 8) with the salt bcrypt drew.
hashPassword(password, salt) ==
  [scheme |-> "2b", cost |-> 8, salt |-> salt, digest |-> <<salt, password>>]

\* bcrypt.compare: re-hash the candidate with the stored salt and cost.
validPassword(password, passwordToMatch) ==
  passwordToMatch.digest = <<passwordToMatch.salt, password>>

\* Mutant: the token is signed with a lifetime of zero.
generateJWT_noLifetime(userDetails) ==
  [userId |-> userDetails.recid, email |-> userDetails.email,
   exp |-> now, key |-> JWT_SECRET, alg |-> "HS256"]

\* jwt.sign({userId, email}, JWT_SECRET, {expiresIn}) (HS256 by default).
generateJWT(userDetails) ==
  [userId |-> userDetails.recid, email |-> userDetails.email,
   exp |-> now + JWT_EXPIRES_IN, key |-> JWT_SECRET, alg |-> "HS256"]

\* Mutant: the middleware reports every rejected token with the one code
\* "invalid_token", whatever jsonwebtoken's error was.
requireAuth_oneError(tok) ==
  IF tok = NoToken THEN "credentials_required"
  ELSE IF tok.alg # JWT_ALGORITHMS \/ tok.key # JWT_SECRET \/ now >= tok.exp
    THEN "invalid_token"
  ELSE "ok"

\* Mutant: the middleware decodes the token without verifying its signature
\* or algorithm.
requireAuth_skipsSignature(tok) ==
  IF tok = NoToken THEN "credentials_required"
  ELSE IF now >= tok.exp THEN "jwt expired"
  ELSE "ok"

\* Mutant: the middleware also looks the token's subject up in users, so
\* deleting the user revokes the token.
requireAuth_checksSubject(tok) ==
  IF tok = NoToken THEN "credentials_required"
  ELSE IF tok.alg # JWT_ALGORITHMS THEN "invalid algorithm"
  ELSE IF tok.key # JWT_SECRET THEN "invalid signature"
  ELSE IF now >= tok.exp THEN "jwt expired"
  ELSE IF \A u \in users : u.recid # tok.userId THEN "revoked"
  ELSE "ok"

\* express-jwt's middleware over jsonwebtoken.verify with the configured
\* secret and algorithms: the outcome for the token a request presents.
requireAuth(tok) ==
  IF tok = NoToken THEN "credentials_required"
  ELSE IF tok.alg # JWT_ALGORITHMS THEN "invalid algorithm"
  ELSE IF tok.key # JWT_SECRET THEN "invalid signature"
  ELSE IF now >= tok.exp THEN "jwt expired"
  ELSE "ok"

(***************************************************************************)
(* dbController.js: one operator per query, on the rows of the store.      *)
(* A query that writes yields the rows after it.                           *)
(***************************************************************************)
\* Mutant: the existence query never finds the email.
verifyUser_never(data) == FALSE

\* SELECT EXISTS (SELECT 1 FROM users WHERE email = $1)
verifyUser(data) == \E u \in users : u.email = data.email

\* SELECT * FROM users WHERE email = $1: the rows, in no stated order.
getUser(email) == {u \in users : u.email = email}

\* INSERT INTO users ... RETURNING *: the row inserted.
UserRow(data) == [recid |-> data.recId, email |-> data.email, password |-> data.password]
createUser(data) == users \cup {UserRow(data)}

\* Mutant: the UPDATE has no WHERE clause and sets the password of every row.
updatePassword_allRows(data) ==
  {[u EXCEPT !.password = data.password] : u \in users}

\* UPDATE users SET password = $1 WHERE recId = $2
updatePassword(data) ==
  {IF u.recid = data.recId THEN [u EXCEPT !.password = data.password] ELSE u : u \in users}

\* Mutant: the foreign keys are declared without ON DELETE CASCADE and the
\* delete removes the user's row alone.
deleteUser_noCascade(recId) ==
  [users |-> {u \in users : u.recid # recId},
   workouts |-> workouts,
   exercises |-> exercises]

\* DELETE FROM users WHERE recId = $1, with the cascades of the two foreign
\* keys on users(recId) and of exercises' foreign key on workouts(recId).
deleteUser(recId) ==
  LET gone == {w.recid : w \in {x \in workouts : x.userrecid = recId}} IN
  [users |-> {u \in users : u.recid # recId},
   workouts |-> {w \in workouts : w.userrecid # recId},
   exercises |-> {e \in exercises : e.userrecid # recId /\ e.workoutrecid \notin gone}]

\* The foreign key of workouts: userRecId REFERENCES users(recId).
WorkoutKeysHold(data) == \E u \in users : u.recid = data.userRecId

\* INSERT INTO workouts(recId, userRecId, workoutName)
createWorkout(data) ==
  workouts \cup {[recid |-> data.recId, userrecid |-> data.userRecId,
                  workoutname |-> data.workoutName]}

\* DELETE FROM workouts WHERE recId = $1, cascading to exercises.
deleteWorkout(recId) ==
  [workouts |-> {w \in workouts : w.recid # recId},
   exercises |-> {e \in exercises : e.workoutrecid # recId}]

\* UPDATE workouts SET workoutName = $1 WHERE recId = $2
updateWorkout(data) ==
  {IF w.recid = data.recId THEN [w EXCEPT !.workoutname = data.workoutName] ELSE w
     : w \in workouts}

\* Mutant: the SELECT has no WHERE clause and returns every user's workouts.
getWorkouts_all(userRecId) == workouts

\* SELECT * FROM workouts WHERE userRecId = $1
getWorkouts(userRecId) == {w \in workouts : w.userrecid = userRecId}

\* Mutant: exercises is created without its foreign keys.
ExerciseKeysHold_unchecked(data) == TRUE

\* The foreign keys of exercises: userRecId and workoutRecId.
ExerciseKeysHold(data) ==
  /\ \E u \in users : u.recid = data.userRecId
  /\ \E w \in workouts : w.recid = data.workoutRecId

\* INSERT INTO exercises(recId, userRecId, workoutRecId, exerciseName, sets)
createExercise(data) ==
  exercises \cup {[recid |-> data.recId, userrecid |-> data.userRecId,
                   workoutrecid |-> data.workoutRecId,
                   exercisename |-> data.exerciseName, sets |-> data.sets]}

\* DELETE FROM exercises WHERE recId = $1
deleteExercise(recId) == {e \in exercises : e.recid # recId}

\* UPDATE exercises SET exerciseName = $1, sets = $2 WHERE recId = $3
updateExercise(data) ==
  {IF e.recid = data.recId
     THEN [e EXCEPT !.exercisename = data.exerciseName, !.sets = data.sets]
     ELSE e : e \in exercises}

\* SELECT * FROM exercises WHERE userRecId = $1
getExercises(userRecId) == {e \in exercises : e.userrecid = userRecId}

(***************************************************************************)
(* dbConnection.js: the provisioner                                        *)
(***************************************************************************)
\* Mutant: the existence query reports every relation absent.
tableExists_never(t) == FALSE

\* INFORMATION_SCHEMA.TABLES holds a row for the relation.
tableExists(t) == t \in tables

\* The relations a CREATE TABLE statement's foreign keys refer to.
References(t) ==
  CASE t = "users" -> {}
    [] t = "workouts" -> {"users"}
    [] t = "exercises" -> {"users", "workouts"}

\* CREATE TABLE t is accepted by the store.
CreateAccepted(t) == t \notin tables /\ References(t) \subseteq tables

DemoHash ==
  [scheme |-> "2b", cost |-> 8, salt |-> DemoSalt, digest |-> <<DemoSalt, DemoPassword>>]

DemoUserRow(ids) == [recid |-> ids.user, email |-> DemoEmail, password |-> DemoHash]

DemoWorkoutRows(ids) ==
  { [recid |-> ids.workouts[i], userrecid |-> ids.user,
     workoutname |-> DemoWorkoutNames[i]] : i \in 1..NumDemoWorkouts }

\* Mutant: every seeded exercise is attached to the first seeded workout.
DemoExerciseRows_onePlan(ids, base) ==
  { [recid |-> base + (i - 1) * NumDemoExercisesPerWorkout + (j - 1),
     userrecid |-> ids.user, workoutrecid |-> ids.workouts[1],
     exercisename |-> DemoExerciseNames[i][j], sets |-> "3 Sets"]
    : i \in 1..NumDemoWorkouts, j \in 1..NumDemoExercisesPerWorkout }

\* The j-th exercise of the i-th workout takes the next fresh id, in order.
DemoExerciseRows(ids, base) ==
  { [recid |-> base + (i - 1) * NumDemoExercisesPerWorkout + (j - 1),
     userrecid |-> ids.user, workoutrecid |-> ids.workouts[i],
     exercisename |-> DemoExerciseNames[i][j], sets |-> "3 Sets"]
    : i \in 1..NumDemoWorkouts, j \in 1..NumDemoExercisesPerWorkout }

NoSeedIds == [user |-> NoSuchId, workouts |-> <<>>]

\* Mutant: a failure in the step ends checkTables, as it would if the error
\* reached the catch block of checkTables.
AfterTable_stopsOnFailure ==
  IF provTable < Len(TableOrder) /\ faults' = faults
    THEN /\ provPc' = "check"
         /\ provTable' = provTable + 1
    ELSE /\ provPc' = "done"
         /\ provTable' = provTable

\* The step after checkTableExists(t) returns: the next relation, or the end.
AfterTable ==
  IF provTable < Len(TableOrder)
    THEN /\ provPc' = "check"
         /\ provTable' = provTable + 1
    ELSE /\ provPc' = "done"
         /\ provTable' = provTable

\* Mutant: a failed existence query is taken to mean the relation exists.
CheckOutcome_failMeansExists(fail, t) ==
  IF fail \/ tableExists(t) THEN "next" ELSE "create"

\* Mutant: the absent branch is taken whatever the query reports.
CheckOutcome_alwaysCreates(fail, t) ==
  IF fail THEN "catch" ELSE "create"

\* checkTableExists: where the existence query for t leads: the catch block
\* when it throws, the absent branch when it reports no row, else the end of
\* the function.
CheckOutcome(fail, t) ==
  IF fail THEN "catch"
  ELSE IF tableExists(t) THEN "next"
  ELSE "create"

\* checkTableExists: the existence query and the branch on its result; the
\* query fails or not as choices allows.
CheckTableOn(choices) ==
  /\ provPc = "check"
  /\ \E fail \in choices :
       LET t == TableOrder[provTable] IN
       /\ faults' = Bump(fail)
       /\ provLog' = Append(provLog, <<"check", t>>)
       /\ IF CheckOutcome(fail, t) = "next"
            THEN AfterTable
            ELSE provPc' = CheckOutcome(fail, t) /\ provTable' = provTable
  /\ UNCHANGED <<tables, users, workouts, exercises, nextId, now, seedIds, run,
                 listening, pending, tokens, last, nreq>>

CheckTable == CheckTableOn(FailChoices)

\* createUsersTable / createWorkoutsTable / createExerciseTable, called from
\* the absent branch ("create") or from the catch block ("catch"); a failure
\* is logged and swallowed.  After the absent branch of "exercises" the
\* provisioner goes on to createDemoUser and draws its first six ids.
CreateTableOn(choices) ==
  /\ provPc \in {"create", "catch"}
  /\ \E fail \in choices :
       LET t == TableOrder[provTable] IN
       /\ faults' = Bump(fail)
       /\ provLog' = Append(provLog, <<"create", t>>)
       /\ tables' = IF ~fail /\ CreateAccepted(t) THEN tables \cup {t} ELSE tables
       /\ IF provPc = "create" /\ t = "exercises"
            THEN /\ provPc' = "seedUser"
                 /\ provTable' = provTable
                 /\ seedIds' = [user |-> nextId,
                                workouts |-> [i \in 1..NumDemoWorkouts |-> nextId + i]]
                 /\ nextId' = nextId + 1 + NumDemoWorkouts
            ELSE /\ AfterTable
                 /\ UNCHANGED <<seedIds, nextId>>
  /\ UNCHANGED <<users, workouts, exercises, now, run, listening, pending,
                 tokens, last, nreq>>

CreateTable == CreateTableOn(FailChoices)

\* createDemoUser, first INSERT.
SeedUserOn(choices) ==
  /\ provPc = "seedUser"
  /\ \E fail \in choices :
       /\ faults' = Bump(fail)
       /\ provLog' = Append(provLog, <<"seed", "users">>)
       /\ IF ~fail /\ "users" \in tables
            THEN /\ users' = users \cup {DemoUserRow(seedIds)}
                 /\ provPc' = "seedWorkouts"
            ELSE /\ users' = users
                 /\ provPc' = "done"
  /\ UNCHANGED <<tables, workouts, exercises, nextId, now, provTable, seedIds,
                 run, listening, pending, tokens, last, nreq>>

SeedUser == SeedUserOn(FailChoices)

\* createDemoUser, second INSERT: five workouts in one statement.
SeedWorkoutsOn(choices) ==
  /\ provPc = "seedWorkouts"
  /\ \E fail \in choices :
       /\ faults' = Bump(fail)
       /\ provLog' = Append(provLog, <<"seed", "workouts">>)
       /\ IF /\ ~fail
             /\ "workouts" \in tables
             /\ \E u \in users : u.recid = seedIds.user
            THEN /\ workouts' = workouts \cup DemoWorkoutRows(seedIds)
                 /\ provPc' = "seedExercises"
            ELSE /\ workouts' = workouts
                 /\ provPc' = "done"
  /\ UNCHANGED <<tables, users, exercises, nextId, now, provTable, seedIds,
                 run, listening, pending, tokens, last, nreq>>

SeedWorkouts == SeedWorkoutsOn(FailChoices)

\* createDemoUser, third INSERT: 25 exercises in one statement, their ids
\* drawn while the statement's arguments are built.
SeedExercisesOn(choices) ==
  /\ provPc = "seedExercises"
  /\ \E fail \in choices :
       /\ faults' = Bump(fail)
       /\ provLog' = Append(provLog, <<"seed", "exercises">>)
       /\ nextId' = nextId + NumDemoWorkouts * NumDemoExercisesPerWorkout
       /\ IF /\ ~fail
             /\ "exercises" \in tables
             /\ \E u \in users : u.recid = seedIds.user
             /\ \A i \in 1..NumDemoWorkouts :
                  \E w \in workouts : w.recid = seedIds.workouts[i]
            THEN exercises' = exercises \cup DemoExerciseRows(seedIds, nextId)
            ELSE exercises' = exercises
       /\ provPc' = "done"
  /\ UNCHANGED <<tables, users, workouts, now, provTable, seedIds, run,
                 listening, pending, tokens, last, nreq>>

SeedExercises == SeedExercisesOn(FailChoices)

\* Mutant: the server starts listening only after checkTables has ended with
\* the three relations in place.
Listen_awaitsTables ==
  /\ ~listening
  /\ provPc = "done"
  /\ tables = AllTables
  /\ listening' = TRUE
  /\ UNCHANGED <<tables, users, workouts, exercises, nextId, now, provPc,
                 provTable, seedIds, provLog, run, pending, tokens, last, nreq,
                 faults>>

\* app.listen: the server starts accepting requests; nothing orders it after
\* checkTables(), which dbController.js calls without awaiting it.
Listen ==
  /\ ~listening
  /\ listening' = TRUE
  /\ UNCHANGED <<tables, users, workouts, exercises, nextId, now, provPc,
                 provTable, seedIds, provLog, run, pending, tokens, last, nreq,
                 faults>>

\* The process is stopped and started again: the store and the clients'
\* tokens persist, everything in the process is new.
RestartWhen(allowed) ==
  /\ provPc = "done"
  /\ allowed
  /\ run' = run + 1
  /\ provPc' = "check"
  /\ provTable' = 1
  /\ seedIds' = NoSeedIds
  /\ provLog' = <<>>
  /\ listening' = FALSE
  /\ registering' = {}
  /\ loggingIn' = {}
  /\ fetching' = {}
  /\ UNCHANGED <<tables, users, workouts, exercises, nextId, now, tokens, last,
                 nreq, faults>>

Restart == RestartWhen(CanEvent)

\* Time passes.  Only token expiry reads the clock, so time is let pass only
\* while some issued token has not yet expired.
Tick ==
  /\ \E t \in tokens : now < t.exp
  /\ now' = now + 1
  /\ UNCHANGED <<tables, users, workouts, exercises, nextId, provPc, provTable,
                 seedIds, provLog, run, listening, pending, tokens, last, nreq,
                 faults>>

(***************************************************************************)
(* index.js: the request handlers                                          *)
(***************************************************************************)
Reply(kind, tok, arg, status, body, token, error) ==
  [kind |-> kind, tok |-> tok, arg |-> arg, status |-> status, body |-> body,
   token |-> token, error |-> error]

NoResponse == Reply(None, NoToken, None, 0, None, NoToken, None)

\* A failure inside a request that is itself an environment event.
ReqFailChoices == IF Used + 1 < MaxEvents THEN {FALSE, TRUE} ELSE {FALSE}

\* Tokens a client may present: one it was issued, none, one signed with a
\* guessed key, one with no signature.
ForgedToken ==
  [userId |-> 1, email |-> DemoEmail, exp |-> (MaxEvents + 1) * JWT_EXPIRES_IN + 1,
   key |-> "guessed", alg |-> "HS256"]
UnsignedToken ==
  [userId |-> 1, email |-> DemoEmail, exp |-> (MaxEvents + 1) * JWT_EXPIRES_IN + 1,
   key |-> None, alg |-> None]
TokenInputs == tokens \cup {NoToken, ForgedToken, UnsignedToken}

\* Record ids a client may name: for each owner the oldest record, and an id
\* of no record.
Oldest(rows) ==
  {r.recid : r \in {x \in rows : \A y \in rows : y.userrecid = x.userrecid => x.recid <= y.recid}}
UserTargets == {u.recid : u \in users} \cup {NoSuchId}
WorkoutTargets == Oldest(workouts) \cup {NoSuchId}
ExerciseTargets == Oldest(exercises) \cup {NoSuchId}

ProtectedRoutes ==
  {"PUT /user", "DELETE /user", "GET /workouts", "POST /workouts", "PUT /workouts",
   "DELETE /workouts", "POST /exercises", "PUT /exercises", "DELETE /exercises"}

\* GET /: the welcome message, for any request.
GetRoot ==
  /\ listening
  /\ CanEvent
  /\ last' = Reply("GET /", NoToken, None, 200, "Welcome to the Workout App API!",
                   NoToken, None)
  /\ nreq' = nreq + 1
  /\ UNCHANGED <<tables, users, workouts, exercises, nextId, now, provPc,
                 provTable, seedIds, provLog, run, listening, pending, tokens, faults>>

\* POST /register up to its first query: uuidv4, hashPassword, verifyUser.
PostRegister ==
  /\ listening
  /\ CanEvent
  /\ \E email \in Emails, password \in Passwords, salt \in Salts,
        fail \in {"none"} \cup (IF Used + 1 < MaxEvents THEN {"hash", "query"} ELSE {}) :
       LET arg == [email |-> email, password |-> password]
           data == [recId |-> nextId, email |-> email,
                    password |-> hashPassword(password, salt)]
           failed(error) ==
             /\ last' = Reply("POST /register", NoToken, arg, 500,
                              "Failed to create user. Please try again.", NoToken, error)
             /\ registering' = registering
       IN
       /\ nextId' = nextId + 1
       /\ faults' = IF fail = "none" THEN faults ELSE faults + 1
       /\ IF fail = "hash" THEN failed("hash")
          ELSE IF fail = "query" \/ "users" \notin tables THEN failed("query")
          ELSE IF verifyUser(data)
            THEN /\ last' = Reply("POST /register", NoToken, arg, 409,
                                  "User already exists.", NoToken, None)
                 /\ registering' = registering
            ELSE /\ registering' = registering \cup {[arg |-> arg, data |-> data]}
                 /\ last' = last
  /\ nreq' = nreq + 1
  /\ UNCHANGED <<loggingIn, fetching, tables, users, workouts, exercises, now, provPc, provTable,
                 seedIds, provLog, run, listening, tokens>>

\* POST /register after verifyUser said no: createUser, generateJWT, 201.
PostRegisterCreate ==
  /\ \E p \in registering, fail \in FailChoices :
       /\ registering' = registering \ {p}
       /\ faults' = Bump(fail)
       /\ IF fail
            THEN /\ last' = Reply("POST /register", NoToken, p.arg, 500,
                                  "Failed to create user. Please try again.", NoToken, "query")
                 /\ UNCHANGED <<users, tokens>>
            ELSE LET userDetails == UserRow(p.data)
                     token == generateJWT(userDetails) IN
                 /\ users' = createUser(p.data)
                 /\ tokens' = tokens \cup {token}
                 /\ last' = Reply("POST /register", NoToken, p.arg, 201,
                                  "User created successfully.", token, None)
  /\ UNCHANGED <<loggingIn, fetching, tables, workouts, exercises, nextId, now, provPc, provTable,
                 seedIds, provLog, run, listening, nreq>>

\* POST /login up to its first query: verifyUser.
PostLogin ==
  /\ listening
  /\ CanEvent
  /\ \E email \in Emails, password \in Passwords \cup {DemoPassword}, fail \in ReqFailChoices :
       LET arg == [email |-> email, password |-> password] IN
       /\ faults' = Bump(fail)
       /\ IF fail \/ "users" \notin tables
            THEN /\ last' = Reply("POST /login", NoToken, arg, 500,
                                  "Login failed. Please try again.", NoToken, "query")
                 /\ loggingIn' = loggingIn
            ELSE IF verifyUser(arg)
              THEN /\ loggingIn' = loggingIn \cup {[rid |-> nreq + 1, arg |-> arg]}
                   /\ last' = last
              ELSE /\ last' = Reply("POST /login", NoToken, arg, 403,
                                    "Account does not exist.", NoToken, None)
                   /\ loggingIn' = loggingIn
  /\ nreq' = nreq + 1
  /\ UNCHANGED <<registering, fetching, tables, users, workouts, exercises, nextId, now, provPc,
                 provTable, seedIds, provLog, run, listening, tokens>>

\* POST /login after verifyUser said yes: getUser, validPassword, generateJWT.
\* getUser returns rows[0] of a query with no ORDER BY: any of the rows; with
\* no row userDetails is undefined and reading its password throws.
PostLoginVerify ==
  /\ \E p \in loggingIn, fail \in {"none"} \cup (IF CanEvent THEN {"query", "compare"} ELSE {}) :
       LET failed(error) ==
             /\ last' = Reply("POST /login", NoToken, p.arg, 500,
                              "Login failed. Please try again.", NoToken, error)
             /\ tokens' = tokens
       IN
       /\ loggingIn' = loggingIn \ {p}
       /\ faults' = IF fail = "none" THEN faults ELSE faults + 1
       /\ IF fail = "query" THEN failed("query")
          ELSE IF getUser(p.arg.email) = {} THEN failed("no row")
          ELSE \E userDetails \in getUser(p.arg.email) :
                 IF fail = "compare" THEN failed("compare")
                 ELSE IF validPassword(p.arg.password, userDetails.password)
                   THEN LET token == generateJWT(userDetails) IN
                        /\ tokens' = tokens \cup {token}
                        /\ last' = Reply("POST /login", NoToken, p.arg, 200,
                                         "User login successful", token, None)
                   ELSE /\ last' = Reply("POST /login", NoToken, p.arg, 403,
                                         "Invalid login details.", NoToken, None)
                        /\ tokens' = tokens
  /\ UNCHANGED <<registering, fetching, tables, users, workouts, exercises, nextId, now, provPc,
                 provTable, seedIds, provLog, run, listening, nreq>>

\* requireAuth refuses the request: express answers 401 and the route's
\* handler does not run.
Unauthorized ==
  /\ listening
  /\ CanEvent
  /\ \E route \in ProtectedRoutes, tok \in TokenInputs :
       /\ requireAuth(tok) # "ok"
       /\ last' = Reply(route, tok, None, 401, requireAuth(tok), NoToken, None)
  /\ nreq' = nreq + 1
  /\ UNCHANGED <<tables, users, workouts, exercises, nextId, now, provPc,
                 provTable, seedIds, provLog, run, listening, pending, tokens, faults>>

\* PUT /user: hashPassword, updatePassword.
PutUser ==
  /\ listening
  /\ CanEvent
  /\ \E tok \in TokenInputs, recId \in UserTargets, password \in Passwords, salt \in Salts,
        fail \in {"none"} \cup (IF Used + 1 < MaxEvents THEN {"hash", "query"} ELSE {}) :
       LET arg == [recId |-> recId, password |-> password]
           data == [recId |-> recId, password |-> hashPassword(password, salt)] IN
       /\ requireAuth(tok) = "ok"
       /\ faults' = IF fail = "none" THEN faults ELSE faults + 1
       /\ IF fail # "none" \/ "users" \notin tables
            THEN /\ last' = Reply("PUT /user", tok, arg, 500,
                                  "Error during updating password. Please try again.",
                                  NoToken, IF fail = "hash" THEN "hash" ELSE "query")
                 /\ users' = users
            ELSE /\ users' = updatePassword(data)
                 /\ last' = Reply("PUT /user", tok, arg, 200,
                                  "Password updated successfully!", NoToken, None)
  /\ nreq' = nreq + 1
  /\ UNCHANGED <<tables, workouts, exercises, nextId, now, provPc, provTable,
                 seedIds, provLog, run, listening, pending, tokens>>

\* DELETE /user/:userId: deleteUser.
DeleteUser ==
  /\ listening
  /\ CanEvent
  /\ \E tok \in TokenInputs, userId \in UserTargets, fail \in ReqFailChoices :
       /\ requireAuth(tok) = "ok"
       /\ faults' = Bump(fail)
       /\ IF fail \/ "users" \notin tables
            THEN /\ last' = Reply("DELETE /user", tok, userId, 500,
                                  "Error during deleting account. Please try again.",
                                  NoToken, "query")
                 /\ UNCHANGED <<users, workouts, exercises>>
            ELSE /\ users' = deleteUser(userId).users
                 /\ workouts' = deleteUser(userId).workouts
                 /\ exercises' = deleteUser(userId).exercises
                 /\ last' = Reply("DELETE /user", tok, userId, 204, None, NoToken, None)
  /\ nreq' = nreq + 1
  /\ UNCHANGED <<tables, nextId, now, provPc, provTable, seedIds, provLog, run,
                 listening, pending, tokens>>

\* GET /workouts up to its first query: getWorkouts for the token's userId.
GetWorkouts ==
  /\ listening
  /\ CanEvent
  /\ \E tok \in TokenInputs, fail \in ReqFailChoices :
       /\ requireAuth(tok) = "ok"
       /\ faults' = Bump(fail)
       /\ IF fail \/ "workouts" \notin tables
            THEN /\ last' = Reply("GET /workouts", tok, None, 500,
                                  "Error fetching workouts. Please refresh the page.",
                                  NoToken, "query")
                 /\ fetching' = fetching
            ELSE /\ fetching' = fetching \cup
                       {[rid |-> nreq + 1, tok |-> tok,
                         usersWorkouts |-> getWorkouts(tok.userId)]}
                 /\ last' = last
  /\ nreq' = nreq + 1
  /\ UNCHANGED <<registering, loggingIn, tables, users, workouts, exercises, nextId, now, provPc,
                 provTable, seedIds, provLog, run, listening, tokens>>

\* GET /workouts after getWorkouts: getExercises, 200.
GetWorkoutsExercises ==
  /\ \E p \in fetching, fail \in FailChoices :
       /\ fetching' = fetching \ {p}
       /\ faults' = Bump(fail)
       /\ IF fail \/ "exercises" \notin tables
            THEN last' = Reply("GET /workouts", p.tok, None, 500,
                               "Error fetching workouts. Please refresh the page.",
                               NoToken, "query")
            ELSE last' = Reply("GET /workouts", p.tok, None, 200,
                               [usersWorkouts |-> p.usersWorkouts,
                                usersExercises |-> getExercises(p.tok.userId)],
                               NoToken, None)
  /\ UNCHANGED <<registering, loggingIn, tables, users, workouts, exercises, nextId, now, provPc,
                 provTable, seedIds, provLog, run, listening, tokens, nreq>>

\* POST /workouts: uuidv4, createWorkout with the token's userId.
PostWorkouts ==
  /\ listening
  /\ CanEvent
  /\ \E tok \in TokenInputs, workoutName \in WorkoutNames, fail \in ReqFailChoices :
       LET data == [recId |-> nextId, userRecId |-> tok.userId, workoutName |-> workoutName] IN
       /\ requireAuth(tok) = "ok"
       /\ faults' = Bump(fail)
       /\ IF fail \/ "workouts" \notin tables \/ ~WorkoutKeysHold(data)
            THEN /\ last' = Reply("POST /workouts", tok, data, 500,
                                  "Error during creating workout. Please try again.",
                                  NoToken, IF fail \/ "workouts" \notin tables
                                             THEN "query" ELSE "foreign key")
                 /\ workouts' = workouts
            ELSE /\ workouts' = createWorkout(data)
                 /\ last' = Reply("POST /workouts", tok, data, 201,
                                  "Workout created successfully!", NoToken, None)
  /\ nextId' = nextId + 1
  /\ nreq' = nreq + 1
  /\ UNCHANGED <<tables, users, exercises, now, provPc, provTable, seedIds,
                 provLog, run, listening, pending, tokens>>

\* PUT /workouts: updateWorkout.
PutWorkouts ==
  /\ listening
  /\ CanEvent
  /\ \E tok \in TokenInputs, recId \in WorkoutTargets, workoutName \in WorkoutNames,
        fail \in ReqFailChoices :
       LET data == [recId |-> recId, workoutName |-> workoutName] IN
       /\ requireAuth(tok) = "ok"
       /\ faults' = Bump(fail)
       /\ IF fail \/ "workouts" \notin tables
            THEN /\ last' = Reply("PUT /workouts", tok, data, 500,
                                  "Error during updating workout. Please try again.",
                                  NoToken, "query")
                 /\ workouts' = workouts
            ELSE /\ workouts' = updateWorkout(data)
                 /\ last' = Reply("PUT /workouts", tok, data, 200,
                                  "Workout updated successfully!", NoToken, None)
  /\ nreq' = nreq + 1
  /\ UNCHANGED <<tables, users, exercises, nextId, now, provPc, provTable,
                 seedIds, provLog, run, listening, pending, tokens>>

\* DELETE /workouts/:workoutId: deleteWorkout.
DeleteWorkouts ==
  /\ listening
  /\ CanEvent
  /\ \E tok \in TokenInputs, workoutId \in WorkoutTargets, fail \in ReqFailChoices :
       /\ requireAuth(tok) = "ok"
       /\ faults' = Bump(fail)
       /\ IF fail \/ "workouts" \notin tables
            THEN /\ last' = Reply("DELETE /workouts", tok, workoutId, 500,
                                  "Error during deleting workout. Please try again.",
                                  NoToken, "query")
                 /\ UNCHANGED <<workouts, exercises>>
            ELSE /\ workouts' = deleteWorkout(workoutId).workouts
                 /\ exercises' = deleteWorkout(workoutId).exercises
                 /\ last' = Reply("DELETE /workouts", tok, workoutId, 204, None, NoToken, None)
  /\ nreq' = nreq + 1
  /\ UNCHANGED <<tables, users, nextId, now, provPc, provTable, seedIds,
                 provLog, run, listening, pending, tokens>>

\* POST /exercises: uuidv4, createExercise with the token's userId and the
\* body's workoutRecId.
PostExercises ==
  /\ listening
  /\ CanEvent
  /\ \E tok \in TokenInputs, workoutRecId \in WorkoutTargets, exerciseName \in ExerciseNames,
        sets \in SetsInputs, fail \in ReqFailChoices :
       LET data == [recId |-> nextId, userRecId |-> tok.userId,
                    workoutRecId |-> workoutRecId, exerciseName |-> exerciseName,
                    sets |-> sets] IN
       /\ requireAuth(tok) = "ok"
       /\ faults' = Bump(fail)
       /\ IF fail \/ "exercises" \notin tables \/ ~ExerciseKeysHold(data)
            THEN /\ last' = Reply("POST /exercises", tok, data, 500,
                                  "Error during creating exercise. Please try again.",
                                  NoToken, IF fail \/ "exercises" \notin tables
                                             THEN "query" ELSE "foreign key")
                 /\ exercises' = exercises
            ELSE /\ exercises' = createExercise(data)
                 /\ last' = Reply("POST /exercises", tok, data, 201,
                                  "Exercise created successfully!", NoToken, None)
  /\ nextId' = nextId + 1
  /\ nreq' = nreq + 1
  /\ UNCHANGED <<tables, users, workouts, now, provPc, provTable, seedIds,
                 provLog, run, listening, pending, tokens>>

\* PUT /exercises: updateExercise.
PutExercises ==
  /\ listening
  /\ CanEvent
  /\ \E tok \in TokenInputs, recId \in ExerciseTargets, exerciseName \in ExerciseNames,
        sets \in SetsInputs, fail \in ReqFailChoices :
       LET data == [recId |-> recId, exerciseName |-> exerciseName, sets |-> sets] IN
       /\ requireAuth(tok) = "ok"
       /\ faults' = Bump(fail)
       /\ IF fail \/ "exercises" \notin tables
            THEN /\ last' = Reply("PUT /exercises", tok, data, 500,
                                  "Error during updating exercise. Please try again.",
                                  NoToken, "query")
                 /\ exercises' = exercises
            ELSE /\ exercises' = updateExercise(data)
                 /\ last' = Reply("PUT /exercises", tok, data, 200,
                                  "Exercise updated successfully!", NoToken, None)
  /\ nreq' = nreq + 1
  /\ UNCHANGED <<tables, users, workouts, nextId, now, provPc, provTable,
                 seedIds, provLog, run, listening, pending, tokens>>

\* DELETE /exercises/:exerciseId: deleteExercise.
DeleteExercises ==
  /\ listening
  /\ CanEvent
  /\ \E tok \in TokenInputs, exerciseId \in ExerciseTargets, fail \in ReqFailChoices :
       /\ requireAuth(tok) = "ok"
       /\ faults' = Bump(fail)
       /\ IF fail \/ "exercises" \notin tables
            THEN /\ last' = Reply("DELETE /exercises", tok, exerciseId, 500,
                                  "Error during deleting exercise. Please try again.",
                                  NoToken, "query")
                 /\ exercises' = exercises
            ELSE /\ exercises' = deleteExercise(exerciseId)
                 /\ last' = Reply("DELETE /exercises", tok, exerciseId, 204, None, NoToken, None)
  /\ nreq' = nreq + 1
  /\ UNCHANGED <<tables, users, workouts, nextId, now, provPc, provTable,
                 seedIds, provLog, run, listening, pending, tokens>>

Init ==
  /\ tables = {}
  /\ users = {}
  /\ workouts = {}
  /\ exercises = {}
  /\ nextId = 1
  /\ now = 0
  /\ provPc = "check"
  /\ provTable = 1
  /\ seedIds = NoSeedIds
  /\ provLog = <<>>
  /\ run = 1
  /\ listening = FALSE
  /\ registering = {}
  /\ loggingIn = {}
  /\ fetching = {}
  /\ tokens = {}
  /\ last = NoResponse
  /\ nreq = 0
  /\ faults = 0

Next ==
  \/ CheckTable
  \/ CreateTable
  \/ SeedUser
  \/ SeedWorkouts
  \/ SeedExercises
  \/ Listen
  \/ Restart
  \/ Tick
  \/ GetRoot
  \/ PostRegister
  \/ PostRegisterCreate
  \/ PostLogin
  \/ PostLoginVerify
  \/ Unauthorized
  \/ PutUser
  \/ DeleteUser
  \/ GetWorkouts
  \/ GetWorkoutsExercises
  \/ PostWorkouts
  \/ PutWorkouts
  \/ DeleteWorkouts
  \/ PostExercises
  \/ PutExercises
  \/ DeleteExercises

Spec == Init /\ [][Next]_vars

(***************************************************************************)
(* The provisioner taken alone: process starts with no request, in which   *)
(* every query of checkTables may fail, in every combination.  app.listen  *)
(* is called while the module loads, and every query the provisioner       *)
(* issues is answered or rejected, so both are taken to happen eventually. *)
(***************************************************************************)
ProvCheckTable == CheckTableOn(BOOLEAN)
ProvCreateTable == CreateTableOn(BOOLEAN)
ProvSeedUser == SeedUserOn(BOOLEAN)
ProvSeedWorkouts == SeedWorkoutsOn(BOOLEAN)
ProvSeedExercises == SeedExercisesOn(BOOLEAN)
ProvRestart == RestartWhen(run < MaxRuns)

ProvStep ==
  \/ ProvCheckTable
  \/ ProvCreateTable
  \/ ProvSeedUser
  \/ ProvSeedWorkouts
  \/ ProvSeedExercises

ProvNext ==
  \/ ProvStep
  \/ Listen
  \/ ProvRestart

ProvSpec == Init /\ [][ProvNext]_vars /\ WF_vars(ProvStep) /\ WF_vars(Listen)

(***************************************************************************)
(* Properties                                                              *)
(***************************************************************************)
\* The rows of users that hold email e.
WithEmail(rows, e) == {u \in rows : u.email = e}

\* C1: in every reachable state, email is unique across the rows of users,
\* whatever the interleaving of concurrent register requests.
C1_EmailUnique ==
  \A u1 \in users, u2 \in users : u1.email = u2.email => u1 = u2

\* A step in which a request handler issues a query against the store.
HandlerQueries ==
  /\ run' = run
  /\ \/ pending' # pending
     \/ /\ nreq' # nreq
        /\ last'.kind \notin {"GET /"}
        /\ last'.status # 401
        /\ last'.error # "hash"

\* C2: no request handler issues a query against the store before checkTables
\* has finished processing the three relations and the seeding.
C2_StartupBarrier == [][HandlerQueries => provPc = "done"]_vars
\* The email of the register request that arrives in a PostRegister step.
ArrivingEmail ==
  IF registering' # registering
    THEN (CHOOSE p \in registering' \ registering : TRUE).arg.email
    ELSE last'.arg.email

\* C3: registering an email twice in sequence.  A register request that
\* arrives when no row holds its email is, if no query fails, answered 201
\* with a token, and exactly one row then holds the email; one that arrives
\* when a row holds its email is answered 409 with no token, inserts nothing
\* and leaves the store and the issued tokens as they were.
C3_RegisterTwice ==
  [][ /\ (PostRegister /\ faults' = faults /\ "users" \in tables) =>
           IF WithEmail(users, ArrivingEmail) # {}
             THEN /\ last'.kind = "POST /register"
                  /\ last'.status = 409
                  /\ last'.token = NoToken
                  /\ registering' = registering
                  /\ UNCHANGED <<tables, users, workouts, exercises, tokens>>
             ELSE /\ registering' # registering
                  /\ users' = users
      /\ (PostRegisterCreate /\ faults' = faults) =>
           /\ last'.status = 201
           /\ last'.token # NoToken
           /\ last'.token \in tokens'
           /\ Cardinality(users' \ users) = 1
           /\ \A u \in users' \ users : u.email = last'.arg.email
           /\ WithEmail(users, last'.arg.email) = {} =>
                Cardinality(WithEmail(users', last'.arg.email)) = 1
    ]_vars

\* C3 witness: a second register of a registered email was answered 409 and
\* one row holds that email.
C3_Witness ==
  /\ last.kind = "POST /register"
  /\ last.status = 409
  /\ last.arg.email # DemoEmail
  /\ Cardinality(WithEmail(users, last.arg.email)) = 1
  /\ \E t \in tokens : t.email = last.arg.email

\* The store after createDemoUser ran once on the three empty relations.
OnlyDemoData ==
  /\ tables = AllTables
  /\ Cardinality(users) = 1
  /\ \A u \in users : u.email = DemoEmail
  /\ Cardinality(workouts) = 5
  /\ Cardinality(exercises) = 25
  /\ \A w \in workouts :
       /\ \E u \in users : w.userrecid = u.recid
       /\ Cardinality({e \in exercises : e.workoutrecid = w.recid}) = 5
  /\ \A e \in exercises : \E u \in users : e.userrecid = u.recid

\* C4: provisioning is idempotent.  With no failure and no request, the first
\* run ends with the three relations and the demo data (1 user, 5 workouts,
\* 25 exercises, 5 per workout); every later run issues only existence
\* checks and its steps leave the store as the first run left it.
C4_ProvisionIdempotent ==
  [][ (run' = run /\ faults' = 0 /\ nreq' = 0) =>
        /\ (run' = 1 /\ provPc' = "done") => OnlyDemoData'
        /\ run' >= 2 =>
             /\ OnlyDemoData'
             /\ UNCHANGED <<tables, users, workouts, exercises>>
             /\ \A i \in 1..Len(provLog') : provLog'[i][1] = "check"
    ]_vars

\* C4 witness: a second run ended, with no failure and no request so far.
C4_Witness ==
  /\ run = 2
  /\ provPc = "done"
  /\ faults = 0
  /\ nreq = 0
  /\ Len(provLog) = 3
  /\ OnlyDemoData

\* A token the server issued that has not expired.
IssuedAndFresh(tok) == tok \in tokens /\ now < tok.exp

\* The request that arrives in this step is for a protected route.
ProtectedArrives ==
  /\ nreq' = nreq + 1
  /\ \/ fetching' # fetching
     \/ pending' = pending /\ last'.kind \in ProtectedRoutes

\* The token the arriving protected request presents.
ArrivingToken ==
  IF fetching' # fetching
    THEN (CHOOSE p \in fetching' \ fetching : TRUE).tok
    ELSE last'.tok

\* C5: a request for a protected route reaches its handler (and with it the
\* store) only with a token the server issued that has not expired; any
\* other is answered 401 with the store untouched and nothing left pending.
\* A request that changes the rows of the store without such a token is for
\* /register or /login.
C5_ProtectedNeedToken ==
  [][ /\ ProtectedArrives =>
           \/ IssuedAndFresh(ArrivingToken)
           \/ /\ last'.status = 401
              /\ pending' = pending
              /\ UNCHANGED <<tables, users, workouts, exercises>>
      /\ (nreq' = nreq + 1 /\ ~ProtectedArrives) =>
           \/ registering' # registering
           \/ loggingIn' # loggingIn
           \/ last'.kind \in {"GET /", "POST /register", "POST /login"}
      /\ \A p \in fetching' : p.tok \in tokens'
    ]_vars

\* C5 witness: a protected handler changed the store for a request with an
\* issued token.
C5_Witness ==
  /\ last.kind = "DELETE /user"
  /\ last.status = 204
  /\ last.tok \in tokens
  /\ last.arg \notin {u.recid : u \in users}
  /\ last.arg # NoSuchId
\* The plaintext behind a row's stored hash: the password most recently set
\* for the row by register, by changePassword or by the seed.
PlainOf(u) == u.password.digest[2]

\* A step in which a login request is answered.
LoginAnswered == (PostLogin /\ loggingIn' = loggingIn) \/ PostLoginVerify

\* C6: login(email, password) is answered 200 with a token if and only if a
\* row holds that email and the password is the one most recently set for
\* it, and is answered 403 with no token in every other case (a failing
\* query or primitive aside).
C6_LoginIffCredentials ==
  [][ (LoginAnswered /\ last'.error \notin {"query", "compare"}) =>
        IF \E u \in users : u.email = last'.arg.email /\ PlainOf(u) = last'.arg.password
          THEN /\ last'.status = 200
               /\ last'.token \in tokens'
               /\ last'.token.email = last'.arg.email
          ELSE /\ last'.status = 403
               /\ last'.token = NoToken
    ]_vars

\* C7: a login refused for an unknown email and a login refused for a wrong
\* password get the same response: any two login responses with status 403
\* that follow one another are equal in status and body.
C7_LoginFailuresUniform ==
  [][ (/\ last.kind = "POST /login" /\ last.status = 403
       /\ last'.kind = "POST /login" /\ last'.status = 403)
        => last'.body = last.body ]_vars

\* C8: right after DELETE /user/:userId is answered 204, no workout and no
\* exercise is owned by userId and no exercise refers to a workout that
\* userId owned.
C8_DeleteUserCascades ==
  [][ (DeleteUser /\ last'.status = 204) =>
        LET id == last'.arg
            owned == {w.recid : w \in {x \in workouts : x.userrecid = id}} IN
        /\ \A u \in users' : u.recid # id
        /\ \A w \in workouts' : w.userrecid # id
        /\ \A e \in exercises' : e.userrecid # id /\ e.workoutrecid \notin owned
    ]_vars

\* C8 witness: the seeded demo user was deleted after its workouts were
\* inserted, and none of them is left.
C8_Witness ==
  /\ last.kind = "DELETE /user"
  /\ last.status = 204
  /\ last.arg = seedIds.user
  /\ \E i \in 1..Len(provLog) : provLog[i] = <<"seed", "exercises">>
  /\ faults = 0
  /\ provPc = "done"
  /\ workouts = {}
  /\ exercises = {}

\* C9: referential integrity.  Every workout's userRecId is the recId of a
\* user; every exercise's userRecId is the recId of a user and its
\* workoutRecId the recId of a workout.
C9_ReferentialIntegrity ==
  /\ \A w \in workouts : \E u \in users : u.recid = w.userrecid
  /\ \A e \in exercises :
       /\ \E u \in users : u.recid = e.userrecid
       /\ \E w \in workouts : w.recid = e.workoutrecid

\* C9 witness: a workout created through POST /workouts beside seeded
\* exercises.
C9_Witness ==
  /\ \E w \in workouts : w.workoutname \in WorkoutNames
  /\ exercises # {}
  /\ last.kind = "POST /workouts"
  /\ last.status = 201

\* C10: every token issued is accepted by requireAuth at every moment before
\* its expiry, whatever happened to its subject in the store.
C10_TokensUnrevocable ==
  \A t \in tokens : now < t.exp => requireAuth(t) = "ok"

\* C10 witness: an unexpired token whose subject has been deleted is accepted.
C10_Witness ==
  \E t \in tokens :
    /\ now < t.exp
    /\ requireAuth(t) = "ok"
    /\ \A u \in users : u.recid # t.userId
    /\ last.kind = "DELETE /user"
    /\ last.status = 204
    /\ last.arg = t.userId

\* A step in which register or login answers with a token.
TokenIssued ==
  /\ PostRegisterCreate \/ PostLoginVerify
  /\ last'.token # NoToken

\* requireAuth accepts the token of the most recent response.
LastTokenValidates == requireAuth(last.token) = "ok"

\* C11: token round trip.  The token that register or login returns is
\* accepted by requireAuth in the state right after it is issued, and its
\* claims are the recId and the email of a row of users that holds the
\* email the request gave: the row register inserted, the row login read.
C11_TokenRoundTrip ==
  [][ TokenIssued =>
        /\ LastTokenValidates'
        /\ last'.token.email = last'.arg.email
        /\ \E u \in users' :
             /\ u.recid = last'.token.userId
             /\ u.email = last'.token.email
        /\ PostRegisterCreate =>
             \A u \in users' \ users : u.recid = last'.token.userId
    ]_vars

\* C11 witness: a login of a registered user was answered with a token that
\* requireAuth accepts and that names the user's row.
C11_Witness ==
  /\ last.kind = "POST /login"
  /\ last.status = 200
  /\ last.arg.email # DemoEmail
  /\ LastTokenValidates
  /\ \E u \in users : u.recid = last.token.userId /\ u.email = last.arg.email

\* An issued token with its signature altered, and one re-encoded under
\* another algorithm.
Tampered(t) == [t EXCEPT !.key = "guessed"]
OtherAlgorithm(t) == [t EXCEPT !.alg = "none"]

\* jsonwebtoken's errors for a token that is not genuine, and for one that is
\* genuine and past its expiry.
InvalidTokenErrors == {"invalid algorithm", "invalid signature"}
ExpiredTokenError == "jwt expired"

\* C12: validation has three outcomes.  An issued token is accepted before
\* its expiry and rejected with the expiry error from its expiry on; the
\* same token with an altered signature or another algorithm is rejected
\* with an invalid-token error, which is not the expiry error, before and
\* after expiry; a request answered 401 carries the error of its token.
C12_ThreeOutcomes ==
  /\ ExpiredTokenError \notin InvalidTokenErrors
  /\ \A t \in tokens :
       /\ now < t.exp => requireAuth(t) = "ok"
       /\ now >= t.exp => requireAuth(t) = ExpiredTokenError
       /\ requireAuth(Tampered(t)) \in InvalidTokenErrors
       /\ requireAuth(OtherAlgorithm(t)) \in InvalidTokenErrors
  /\ \A tok \in {ForgedToken, UnsignedToken} : requireAuth(tok) \in InvalidTokenErrors
  /\ (last.kind \in ProtectedRoutes /\ last.status = 401) =>
       /\ last.tok \in tokens => last.body = ExpiredTokenError
       /\ last.tok \in {ForgedToken, UnsignedToken} => last.body \in InvalidTokenErrors

\* C12 witness: a request that presented an issued token after its expiry
\* was answered 401 with the expiry error, and the same token with an
\* altered signature gets the invalid-signature error.
C12_Witness ==
  /\ last.kind \in ProtectedRoutes
  /\ last.status = 401
  /\ last.tok \in tokens
  /\ now >= last.tok.exp
  /\ last.body = "jwt expired"
  /\ requireAuth(Tampered(last.tok)) = "invalid signature"

\* The record ids createDemoUser generated, once its third INSERT went
\* through: the user's, the five workouts', the new exercises'.
SeedPlanIds == {seedIds.workouts[i] : i \in 1..Len(seedIds.workouts)}
SeededIds(newExercises) ==
  {seedIds.user} \cup SeedPlanIds \cup {e.recid : e \in newExercises}

\* C13: the seed set is internally consistent.  The first INSERT of
\* createDemoUser adds one user, the second five workouts owned by it, the
\* third 25 exercises owned by it, each on one of the five workouts, five on
\* each; the 31 ids are pairwise distinct and none was in the store before.
C13_SeedConsistent ==
  [][ /\ (SeedUser /\ users' # users) =>
           /\ Cardinality(users' \ users) = 1
           /\ \A u \in users' \ users : u.recid = seedIds.user /\ u.email = DemoEmail
      /\ (SeedWorkouts /\ workouts' # workouts) =>
           /\ Cardinality(workouts' \ workouts) = 5
           /\ Cardinality(SeedPlanIds) = 5
           /\ \A w \in workouts' \ workouts :
                w.userrecid = seedIds.user /\ w.recid \in SeedPlanIds
      /\ (SeedExercises /\ exercises' # exercises) =>
           LET new == exercises' \ exercises IN
           /\ Cardinality(new) = 25
           /\ \A e \in new : e.userrecid = seedIds.user /\ e.workoutrecid \in SeedPlanIds
           /\ \A p \in SeedPlanIds :
                /\ Cardinality({e \in new : e.workoutrecid = p}) = 5
                /\ \E w \in workouts' : w.recid = p /\ w.userrecid = seedIds.user
           /\ \E u \in users' : u.recid = seedIds.user
           /\ Cardinality(SeededIds(new)) = 31
           /\ \A e \in new :
                e.recid \notin {x.recid : x \in users \cup workouts \cup exercises}
    ]_vars

\* C13 witness: createDemoUser ran to its end in the first run, beside a user
\* registered while it ran, and the store holds its 25 exercises under 31
\* distinct ids.
C13_Witness ==
  /\ run = 1
  /\ provPc = "done"
  /\ Cardinality(users) = 2
  /\ Cardinality(getExercises(seedIds.user)) = 25
  /\ Cardinality(SeededIds(getExercises(seedIds.user))) = 31

\* The relation exercises is created in this step.
ExercisesFreshlyCreated == "exercises" \in tables' \ tables

\* C14: the provisioner enters createDemoUser exactly in the steps that
\* freshly create the relation exercises: never after a check that found it,
\* never after a create that did not succeed, and always after a create that
\* succeeded, the one issued from the catch block included.
C14_SeedOnlyAfterFreshCreate ==
  [][ (provPc # "seedUser" /\ run' = run) =>
        (provPc' = "seedUser" <=> ExercisesFreshlyCreated) ]_vars

\* The existence query for relation t was issued in this run.
Checked(t) == \E i \in 1..Len(provLog) : provLog[i] = <<"check", t>>

\* C15: whatever steps of a provisioning run fail, checkTables issues the
\* existence query for each of users, workouts and exercises before it
\* ends, and it ends.
C15_FailuresDontAbort ==
  /\ [](provPc = "done" => \A t \in AllTables : Checked(t))
  /\ \A r \in 1..MaxRuns : (run = r) ~> (run = r /\ provPc = "done")

\* C15 witness: a first run in which six queries failed, the three
\* existence queries and the three creates, ended with all three relations
\* checked.
C15_Witness ==
  /\ run = 1
  /\ provPc = "done"
  /\ faults = 6
  /\ tables = {}
  /\ \A t \in AllTables : Checked(t)

\* C16: whatever provisioning steps fail, a process that is not listening
\* eventually listens, from the last process start on it listens for good,
\* and no step of the provisioner stops it from listening once it does.
C16_EventuallyListening ==
  /\ ~listening ~> listening
  /\ <>[]listening
  /\ [][(listening /\ run' = run) => listening']_vars

\* C16 witness: the server listens after a run that ended with failures and
\* without the relation exercises.
C16_Witness ==
  /\ listening
  /\ provPc = "done"
  /\ faults >= 1
  /\ "exercises" \notin tables

\* The creates issued for relation t in a log of the provisioner.
Creates(log, t) == {i \in 1..Len(log) : log[i] = <<"create", t>>}

\* C17: when the existence query for a relation fails, the provisioner
\* enters the catch block for that relation with the store untouched; from
\* there it issues one create for that relation, the only one of the run,
\* and goes on to the next relation (or ends after the last).  A create that
\* succeeds on an absent relation adds it; one that fails, or is rejected as
\* a duplicate, leaves the relations and their rows as they were.
C17_CheckFailureFallback ==
  [][ /\ (provPc = "check" /\ faults' # faults) =>
           /\ provPc' = "catch"
           /\ provTable' = provTable
           /\ provLog' = Append(provLog, <<"check", TableOrder[provTable]>>)
           /\ UNCHANGED <<tables, users, workouts, exercises>>
      /\ (provPc = "catch" /\ provLog' # provLog) =>
           LET t == TableOrder[provTable] IN
           /\ provLog' = Append(provLog, <<"create", t>>)
           /\ provLog[Len(provLog)] = <<"check", t>>
           /\ Cardinality(Creates(provLog', t)) = 1
           /\ IF provTable < Len(TableOrder)
                THEN provPc' = "check" /\ provTable' = provTable + 1
                ELSE provPc' = "done"
           /\ UNCHANGED <<users, workouts, exercises>>
           /\ (t \in tables \/ faults' # faults) => tables' = tables
           /\ (t \notin tables /\ faults' = faults /\ References(t) \subseteq tables) =>
                tables' = tables \cup {t}
    ]_vars

\* C17 witness: in a second run the existence query for users failed, the
\* create from the catch block was rejected as a duplicate, and the relation
\* and the seeded rows are as the first run left them.
C17_Witness ==
  /\ run = 2
  /\ provLog = << <<"check", "users">>, <<"create", "users">> >>
  /\ provPc = "check"
  /\ provTable = 2
  /\ tables = AllTables
  /\ Cardinality(users) = 1
  /\ Cardinality(exercises) = 25

\* The place of a relation in the dependency order.
Rank(t) ==
  CASE t = "users" -> 1
    [] t = "workouts" -> 2
    [] t = "exercises" -> 3

\* The entries of the log that are existence queries or creates.
SchemaEntries == {i \in 1..Len(provLog) : provLog[i][1] \in {"check", "create"}}

\* C18: in every run the statements of the provisioner follow the order
\* users, workouts, exercises.  The first statement is the check of users;
\* the check of a later relation directly follows the check or the create
\* of the relation before it; a create directly follows the check of its
\* own relation; no check or create of a relation comes after one of a
\* later relation, and the seed's statements come after all of them.
C18_FixedOrder ==
  /\ \A i \in SchemaEntries, j \in SchemaEntries :
       i < j => Rank(provLog[i][2]) <= Rank(provLog[j][2])
  /\ \A i \in SchemaEntries :
       /\ provLog[i][1] = "create" => i > 1 /\ provLog[i - 1] = <<"check", provLog[i][2]>>
       /\ provLog[i][1] = "check" =>
            IF i = 1 THEN Rank(provLog[i][2]) = 1
            ELSE /\ provLog[i - 1][1] \in {"check", "create"}
                 /\ Rank(provLog[i - 1][2]) = Rank(provLog[i][2]) - 1
  /\ \A i \in 1..Len(provLog) :
       provLog[i][1] = "seed" =>
         /\ \A j \in SchemaEntries : j < i
         /\ \E j \in SchemaEntries : provLog[j] = <<"create", "exercises">>

\* C18 witness: a run in which the three existence queries failed and the
\* three creates issued from the catch block built the relations in order.
C18_Witness ==
  /\ provPc = "done"
  /\ faults = 3
  /\ tables = AllTables
  /\ provLog = << <<"check", "users">>, <<"create", "users">>,
                  <<"check", "workouts">>, <<"create", "workouts">>,
                  <<"check", "exercises">>, <<"create", "exercises">> >>

\* C19: create only if absent.  When the existence query succeeds and the
\* relation exists, the step issues nothing else: the provisioner moves to
\* the check of the next relation (or ends after the last) with no create
\* and no seed, and relations, rows and createDemoUser's ids are unchanged.
\* The absent branch is entered, and its create issued, only for a relation
\* that does not exist.
C19_CreateOnlyIfAbsent ==
  [][ /\ (/\ provPc = "check"
          /\ provLog' # provLog
          /\ faults' = faults
          /\ TableOrder[provTable] \in tables) =>
           /\ provLog' = Append(provLog, <<"check", TableOrder[provTable]>>)
           /\ IF provTable < Len(TableOrder)
                THEN provPc' = "check" /\ provTable' = provTable + 1
                ELSE provPc' = "done"
           /\ UNCHANGED <<tables, users, workouts, exercises, seedIds, nextId>>
      /\ (provPc # "create" /\ provPc' = "create") => TableOrder[provTable'] \notin tables'
      /\ (provPc = "create" /\ provLog' # provLog) => TableOrder[provTable] \notin tables
    ]_vars

\* C19 witness: in a second run with no failure the existence query found
\* users, and the provisioner is at the check of workouts with the seeded
\* rows in place and nothing but that query issued.
C19_Witness ==
  /\ run = 2
  /\ faults = 0
  /\ provLog = << <<"check", "users">> >>
  /\ provPc = "check"
  /\ provTable = 2
  /\ Cardinality(workouts) = 5

\* stored is a bcrypt hash of plaintext at the cost auth.js asks for: a value
\* under the scheme's one-way digest, not the plaintext as given.
IsHashOf(stored, plaintext) ==
  /\ stored.scheme = "2b"
  /\ stored.cost = 8
  /\ stored.digest = <<stored.salt, plaintext>>

\* C20: cryptographic failures are never downgraded to success.  A register
\* whose hashing fails is answered 500 with no token and writes nothing; a
\* login whose comparison raises an error is answered 500 with no token.  The row register inserts and the row changePassword
\* updates hold a hash of the submitted password.
C20_CryptoFailuresFatal ==
  [][ /\ (PostRegister /\ faults' # faults /\ last'.error = "hash") =>
           /\ last'.status = 500
           /\ last'.token = NoToken
           /\ registering' = registering
           /\ UNCHANGED <<users, tokens>>
      /\ (PostLoginVerify /\ faults' # faults /\ last'.error = "compare") =>
           /\ last'.status = 500
           /\ last'.token = NoToken
           /\ UNCHANGED <<users, tokens>>
      /\ PostRegisterCreate =>
           \A u \in users' \ users : IsHashOf(u.password, last'.arg.password)
      /\ (PutUser /\ last'.status = 200) =>
           \A u \in users' :
             u.recid = last'.arg.recId => IsHashOf(u.password, last'.arg.password)
    ]_vars

\* C20 witness: a register whose hashing failed was answered 500 with no
\* token, and no row holds its email.
C20_Witness ==
  /\ provPc = "done"
  /\ last.kind = "POST /register"
  /\ last.status = 500
  /\ last.error = "hash"
  /\ last.token = NoToken
  /\ WithEmail(users, last.arg.email) = {}
  /\ tokens = {}

\* The recIds of the rows of users.
UserIds(rows) == {u.recid : u \in rows}

\* C21: changePassword changes the password of the row whose recId is the
\* one given and nothing else: the rows of users keep their recIds and
\* emails, every other row of users is as it was, relations, workouts and
\* exercises are unchanged, and with no row of that recId the store is
\* unchanged.  No step of any operation changes the recId of a row: a step
\* does not both remove a recId and add one, and a recId that stays keeps
\* its email.
C21_ChangePasswordFrame ==
  [][ /\ PutUser =>
           /\ UNCHANGED <<tables, workouts, exercises>>
           /\ Cardinality(users') = Cardinality(users)
           /\ \A u \in users :
                \E v \in users' :
                  /\ v.recid = u.recid
                  /\ v.email = u.email
                  /\ u.recid # last'.arg.recId => v = u
           /\ last'.arg.recId \notin UserIds(users) => users' = users
      /\ UserIds(users) \ UserIds(users') = {} \/ UserIds(users') \ UserIds(users) = {}
      /\ \A u \in users, v \in users' : v.recid = u.recid => v.email = u.email
    ]_vars

\* C21 witness: PUT /user changed the password of a registered user and the
\* seeded demo user's row, beside it, still holds the demo password.
C21_Witness ==
  /\ last.kind = "PUT /user"
  /\ last.status = 200
  /\ \E u \in users, v \in users :
       /\ u.recid = last.arg.recId
       /\ u.email # DemoEmail
       /\ PlainOf(u) = last.arg.password
       /\ \A t \in tokens : t.userId = u.recid /\ t.email = u.email
       /\ v.email = DemoEmail
       /\ PlainOf(v) = DemoPassword

\* The routes that modify or delete existing records.
ModifyingRoutes ==
  {"PUT /user", "DELETE /user", "PUT /workouts", "DELETE /workouts",
   "PUT /exercises", "DELETE /exercises"}

\* A step in which a request for a modifying route is handled.
ModifyArrives == nreq' = nreq + 1 /\ last'.kind \in ModifyingRoutes

\* C22: a request for a modifying route leaves every record of another
\* Identity as it was: every row of users whose recId is not the subject of
\* the request's token, and every workout and exercise whose userRecId is
\* not that subject, is in the store after the step, unchanged.
C22_CrossUserIsolation ==
  [][ ModifyArrives =>
        LET subject == last'.tok.userId IN
        /\ \A u \in users : u.recid # subject => u \in users'
        /\ \A w \in workouts : w.userrecid # subject => w \in workouts'
        /\ \A e \in exercises : e.userrecid # subject => e \in exercises'
    ]_vars

\* C23: ownership is transitive-consistent.  In every reachable state every
\* exercise's userRecId equals the userRecId of the workout its workoutRecId
\* refers to.
C23_OwnershipTransitive ==
  \A e \in exercises, w \in workouts :
    w.recid = e.workoutrecid => e.userrecid = w.userrecid

\* C24: in every state reached by any number of provisioning runs, with any
\* steps failing, at most one row of users holds the demo email.
C24_OneDemoIdentity == Cardinality(WithEmail(users, DemoEmail)) <= 1

\* The rows the current run's createDemoUser inserted that are in the store.
SeedUserRows == {u \in users : u.recid = seedIds.user}
SeedWorkoutRows == {w \in workouts : w.userrecid = seedIds.user}
SeedExerciseRows == {e \in exercises : e.userrecid = seedIds.user}

\* C25: seeding is all-or-nothing.  When createDemoUser has returned, the
\* store holds either the demo user it inserted with 5 workouts and 25
\* exercises, or none of the rows of that seed attempt.
C25_SeedAllOrNothing ==
  (provPc = "done" /\ seedIds # NoSeedIds) =>
    \/ /\ Cardinality(SeedUserRows) = 1
       /\ Cardinality(SeedWorkoutRows) = 5
       /\ Cardinality(SeedExerciseRows) = 25
    \/ /\ SeedUserRows = {}
       /\ SeedWorkoutRows = {}
       /\ SeedExerciseRows = {}

====
